---- MODULE Spec2Model ----
(***************************************************************************)
(* Model of the instrument-control scripts of SCA_control:                 *)
(*   TEK_TBS1000C_connection.py  - oscilloscope batch capture              *)
(*   RIGOL_DSA832_connection.py  - spectrum analyzer single acquisition    *)
(* The transport (pyvisa) is the environment: every write/query/read_raw   *)
(* may succeed or raise, and responses are drawn from bounded sets.        *)
(***************************************************************************)
EXTENDS Integers, Sequences, FiniteSets, TLC

VARIABLES
    pc,             \* position of the running script
    handle,         \* transport handle: "none" | "open" | "closed"
    closeCalls,     \* number of close() calls made on the handle
    scope,          \* the script's variable `scope`: "None" | "handle"
    log,            \* every command handed to the transport, in order
    i,              \* capture loop index (for i in range(NUM_TRACES))
    all_traces,     \* list of voltage traces stored by the batch
    time_data,      \* the single stored time axis (Option)
    preamble_cache, \* cached preamble (Option)
    elapsed,        \* wait_for_trigger: time.time() - start_time, in ticks
    timeout,        \* wait_for_trigger: its timeout argument, in ticks
    state,          \* wait_for_trigger: last stripped ACQuire:STATE? answer
    ret,            \* wait_for_trigger: return value "none" | "True" | "False"
    preamble,       \* get_waveform: local preamble (Option)
    raw_data,       \* get_waveform: bytes returned by read_raw()
    t_data,         \* value returned by get_waveform (Option)
    v_data,         \* value returned by get_waveform (Option)
    saved,          \* what was handed to np.savez (Option)
    cfg,            \* RIGOL: the configuration variables of lines 26-61
    start_freq,     \* RIGOL: start frequency read back (Option)
    stop_freq,      \* RIGOL: stop frequency read back (Option)
    num_points,     \* RIGOL: point count read back (Option)
    trace_data,     \* RIGOL: answer to :TRACe:DATA? (Option of text)
    amplitude_values, \* RIGOL: parsed amplitudes (Option)
    frequency_values, \* RIGOL: frequency axis (Option)
    block,          \* block decoder input: how the buffer was built
    decoded,        \* block decoder output (Option)
    scaled          \* scaling of the decoded samples and its parameters (Option)

\* variables of the oscilloscope script alone
tekVars == <<i, all_traces, time_data, preamble_cache, elapsed, timeout,
             state, ret, preamble, raw_data, t_data, v_data, saved>>

\* variables of the spectrum analyzer script alone
rigVars == <<cfg, start_freq, stop_freq, num_points, trace_data,
             amplitude_values, frequency_values>>

\* variables of the block decoder harness
blkVars == <<block, decoded, scaled>>

vars == <<pc, handle, closeCalls, scope, log, tekVars, rigVars, blkVars>>

----------------------------------------------------------------------------
(* Bounds of the model *)

\* number of captures of a batch (NUM_TRACES is 20 in the script)
NUM_TRACES == 3
\* wait_for_trigger timeout, in clock ticks (30 s in the script)
TriggerTimeout == 2
\* longest time one poll iteration (query + sleep) can take, in ticks
MaxTick == 2
\* largest timeout wait_for_trigger is called with on its own, in ticks
MaxTimeout == 5
\* longest sample sequence given to the block decoder
MaxSamples == 2
\* largest number of length digits in a block header
MaxDigits == 2

(* Program constants *)
NUM_POINTS == 601

----------------------------------------------------------------------------
(* Python values *)

None == [some |-> FALSE, v |-> <<>>]
Some(x) == [some |-> TRUE, v |-> x]

\* a transport command with its numeric or textual argument, if it has one
Cmd(c) == [cmd |-> c, arg |-> 0, text |-> ""]
CmdArg(c, a) == [cmd |-> c, arg |-> a, text |-> ""]
CmdText(c, t) == [cmd |-> c, arg |-> 0, text |-> t]

\* s[a:b] of Python for 0 <= a and b = -1
SliceToLast(s, a) == SubSeq(s, a + 1, Len(s) - 1)

\* the commands of a straight-line block that were handed to the transport
\* when the n-th of them was the last one attempted
Attempted(cmds, n) == SubSeq(cmds, 1, n)

\* outcomes of a straight-line block of transport calls: (n, raised) where
\* the n-th call is the last one attempted and `raised` tells whether it raised
Outcomes(cmds) ==
    {o \in (1..Len(cmds)) \X BOOLEAN : o[1] < Len(cmds) => o[2]}

----------------------------------------------------------------------------
(* Text: a response is a sequence of characters *)

IsSpace(c) == c \in {" ", "\n", "\r", "\t"}

RECURSIVE LStrip(_)
LStrip(s) ==
    IF s # <<>> /\ IsSpace(Head(s)) THEN LStrip(Tail(s)) ELSE s

RECURSIVE RStrip(_)
RStrip(s) ==
    IF s # <<>> /\ IsSpace(s[Len(s)])
    THEN RStrip(SubSeq(s, 1, Len(s) - 1))
    ELSE s

\* str.strip()
Strip(s) == LStrip(RStrip(s))

\* answers of the scope to ACQuire:STATE? (HEADer OFF)
StateResponses == {<<"0">>, <<"1">>, <<"0", "\n">>, <<"1", "\n">>}

----------------------------------------------------------------------------
(* Binary block decoding, TEK get_waveform lines 150-155 *)

HASH == 35
NEWLINE == 10
ZERO_CHAR == 48

IsDigitByte(b) == b \in ZERO_CHAR .. (ZERO_CHAR + 9)

\* int(chr(b))
DigitOf(b) == b - ZERO_CHAR

\* np.frombuffer(buf, dtype='>i2') of a buffer of even length
RECURSIVE FromBufferBE16(_)
FromBufferBE16(buf) ==
    IF Len(buf) < 2 THEN <<>>
    ELSE LET u == buf[1] * 256 + buf[2]
             s == IF u >= 32768 THEN u - 65536 ELSE u
         IN  <<s>> \o FromBufferBE16(SubSeq(buf, 3, Len(buf)))

\* lines 151-155: Some(adc_wave), or None when an exception is raised
\* (IndexError on raw_data[1], ValueError of int(), ValueError of frombuffer)
DecodeCurve(raw) ==
    IF Len(raw) < 2 THEN None
    ELSE IF ~IsDigitByte(raw[2]) THEN None
    ELSE LET header_len == 2 + DigitOf(raw[2])
             wave_data == SliceToLast(raw, header_len)
         IN  IF Len(wave_data) % 2 # 0 THEN None
             ELSE Some(FromBufferBE16(wave_data))

----------------------------------------------------------------------------
(* Preamble and scaling, TEK get_waveform lines 133-161 *)

\* a field of the split preamble: numeric text, or text int()/float() reject
Num(n) == [ok |-> TRUE, v |-> n]
Txt == [ok |-> FALSE, v |-> 0]

\* BYT_NR;BIT_NR;ENCDG;BN_FMT;BYT_OR;WFID;NR_PT;PT_FMT;XUNIT;XINCR;XZERO;
\* PT_OFF;YUNIT;YMULT;YOFF;YZERO
MkPreamble(nr_pt, xincr, xzero, ymult, yoff, yzero) ==
    <<Num(2), Num(16), Txt, Txt, Txt, Txt, nr_pt, Txt, Txt, xincr, xzero,
      Num(0), Txt, ymult, yoff, yzero>>

\* answers of the scope to WFMOutpre?, already split on ';'
PreambleResponses ==
    { MkPreamble(Num(2), Num(1), Num(0), Num(2), Num(100), Num(5)),
      MkPreamble(Num(3), Num(2), Num(-1), Num(1), Num(0), Num(0)),
      MkPreamble(Txt, Num(1), Num(0), Num(2), Num(100), Num(5)),
      <<Num(2), Num(16), Txt, Txt, Txt, Txt, Num(2)>> }

\* preamble[k] with Python's 0-based index
Field(p, k) == p[k + 1]

\* lines 139-144 succeed: all six fields exist and parse
PreambleParses(p) ==
    /\ Len(p) >= 16
    /\ \A k \in {6, 9, 10, 13, 14, 15} : Field(p, k).ok

\* the offset is subtracted after the multiplication
ScaleBeforeOffset(adc, p) ==
    [k \in 1..Len(adc) |->
        ((adc[k] * Field(p, 13).v) - Field(p, 14).v) + Field(p, 15).v]

\* line 158: ((adc_wave - yoff) * ymult) + yzero
ScaleVoltage(adc, p) ==
    [k \in 1..Len(adc) |->
        ((adc[k] - Field(p, 14).v) * Field(p, 13).v) + Field(p, 15).v]

\* line 161: np.arange(0, points) * xincr + xzero
TimeAxis(p) ==
    LET points == Field(p, 6).v
    IN  [k \in 1..(IF points > 0 THEN points ELSE 0) |->
            (k - 1) * Field(p, 9).v + Field(p, 10).v]

----------------------------------------------------------------------------
(* Curve answers of the scope *)

\* '#' <n> <n length digits> <payload> [terminator]
Curve2 == <<HASH, ZERO_CHAR + 1, ZERO_CHAR + 4, 0, 150, 255, 255, NEWLINE>>
Curve3 == <<HASH, ZERO_CHAR + 1, ZERO_CHAR + 6, 0, 1, 128, 0, 127, 255, NEWLINE>>
CurveNoTerm == <<HASH, ZERO_CHAR + 1, ZERO_CHAR + 4, 0, 150, 255, 255>>
CurveShort == <<HASH>>

CurveResponses == {Curve2, Curve3, CurveNoTerm, CurveShort}

----------------------------------------------------------------------------
(* RIGOL_DSA832_connection.py: configuration, lines 26-61 *)

\* the configurations the script can be edited to (None = keep the setting)
Configs ==
    [ START_FREQ : {None, Some(2000)},
      STOP_FREQ : {None, Some(3000)},
      CENTER_FREQ : {None, Some(2500)},
      SPAN : {None, Some(1000)},
      REFERENCE_LEVEL : {None, Some(0)},
      NUM_POINTS : {None, Some(50), Some(3001), Some(3002)},
      TRACE_MODE : {"None", "WRITe", "MAXHold", "MINHold", "INVALID"} ]

\* the configuration of a run in which the spectrum analyzer script is idle
NoConfig ==
    [ START_FREQ |-> None, STOP_FREQ |-> None, CENTER_FREQ |-> None,
      SPAN |-> None, REFERENCE_LEVEL |-> None, NUM_POINTS |-> None,
      TRACE_MODE |-> "None" ]

TRACE_NUMBER == 1
MAX_HOLD_WAIT_TIME == 10

\* line 102
valid_modes ==
    {"WRITe", "MAXHold", "MINHold", "VIEW", "BLANk", "VIDeoavg", "POWeravg"}

\* only max hold is treated as a hold mode
IsHoldMaxOnly(mode) == mode = "MAXHold"

\* lines 108 and 122: TRACE_MODE in ['MAXHold', 'MINHold']
IsHold(mode) == mode \in {"MAXHold", "MINHold"}

\* the lower limit is not tested
PointsBelowMax(n) == n <= 3001

\* line 94: 101 <= NUM_POINTS <= 3001
PointsInRange(n) == 101 <= n /\ n <= 3001

\* line 149: default point count of the DSA832E
DefaultPoints == 601

----------------------------------------------------------------------------
(* Text parsing used by the spectrum analyzer script, lines 161-182 *)

DigitChars == <<"0", "1", "2", "3", "4", "5", "6", "7", "8", "9">>

IsDigit(c) == \E k \in DOMAIN DigitChars : DigitChars[k] = c

DigitVal(c) == (CHOOSE k \in DOMAIN DigitChars : DigitChars[k] = c) - 1

\* value of a non-empty sequence of digits
RECURSIVE DigitsVal(_)
DigitsVal(s) ==
    IF s = <<>> THEN 0
    ELSE DigitsVal(SubSeq(s, 1, Len(s) - 1)) * 10 + DigitVal(s[Len(s)])

\* int(text) / float(text) of a text made of an optional sign and digits
\* (surrounding whitespace is accepted); None when ValueError is raised
ParseNumber(s) ==
    LET t == Strip(s)
        signed == t # <<>> /\ t[1] \in {"-", "+"}
        body == IF signed THEN Tail(t) ELSE t
    IN  IF body # <<>> /\ \A k \in DOMAIN body : IsDigit(body[k])
        THEN Some(IF signed /\ t[1] = "-"
                  THEN 0 - DigitsVal(body) ELSE DigitsVal(body))
        ELSE None

\* s[a:] of Python, 0 <= a
SliceFrom(s, a) == SubSeq(s, a + 1, Len(s))

\* s[a:b] of Python, 0 <= a <= b
Slice(s, a, b) == SubSeq(s, a + 1, IF b < Len(s) THEN b ELSE Len(s))

\* str.split(','): the tokens between commas, at least one
RECURSIVE Split(_)
Split(s) ==
    IF \A k \in DOMAIN s : s[k] # ","
    THEN <<s>>
    ELSE LET c == CHOOSE k \in DOMAIN s :
                      s[k] = "," /\ \A j \in 1..(k - 1) : s[j] # ","
         IN  <<SubSeq(s, 1, c - 1)>> \o Split(SubSeq(s, c + 1, Len(s)))

\* lines 164-174: skip a '#<n><length>' header; None when int() raises
\* (IndexError on trace_str[1], ValueError on a non-digit or a bad length)
SkipHeader(trace_str) ==
    IF trace_str # <<>> /\ trace_str[1] = "#"
    THEN IF Len(trace_str) < 2 \/ ~IsDigit(trace_str[2]) THEN None
         ELSE LET header_digits == DigitVal(trace_str[2])
                  length_str == Slice(trace_str, 2, 2 + header_digits)
                  data_start == 2 + header_digits
              IN  IF ~ParseNumber(length_str).some THEN None
                  ELSE Some(Strip(SliceFrom(trace_str, data_start)))
    ELSE Some(trace_str)

\* the tokens of line 182 that survive `if x.strip()`, stripped
RECURSIVE Tokens(_)
Tokens(parts) ==
    IF parts = <<>> THEN <<>>
    ELSE LET x == Strip(Head(parts))
         IN  (IF x # <<>> THEN <<x>> ELSE <<>>) \o Tokens(Tail(parts))

\* the test for an empty payload is left out
DecodeUnchecked(trace) ==
    LET skipped == SkipHeader(Strip(trace))
    IN  IF ~skipped.some THEN None
        ELSE LET toks == Tokens(Split(Strip(skipped.v)))
             IN  IF \E k \in DOMAIN toks : ~ParseNumber(toks[k]).some
                 THEN None
                 ELSE Some([k \in DOMAIN toks |-> ParseNumber(toks[k]).v])

\* lines 161-182: Some(amplitude_values), or None when ValueError/IndexError
\* is raised (bad header, "No trace data received", unparsable token)
DecodeTrace(trace) ==
    LET skipped == SkipHeader(Strip(trace))
    IN  IF ~skipped.some THEN None
        ELSE LET trace_str == Strip(skipped.v)
                 toks == Tokens(Split(trace_str))
             IN  IF trace_str = <<>> THEN None
                 ELSE IF \E k \in DOMAIN toks : ~ParseNumber(toks[k]).some
                 THEN None
                 ELSE Some([k \in DOMAIN toks |-> ParseNumber(toks[k]).v])

\* line 189: np.linspace(start, stop, n); each point is the fraction num/den
Linspace(start, stop, n) ==
    [k \in 1..n |->
        IF n = 1 THEN [num |-> start, den |-> 1]
        ELSE [num |-> start * (n - 1) + (k - 1) * (stop - start),
              den |-> n - 1]]

\* answers of the analyzer to :TRACe:DATA? TRACE1
TraceResponses ==
    { <<"-", "1", "0", ",", "-", "2", "0", ",", " ", "-", "3", "\n">>,
      <<"#", "1", "5", "-", "1", ",", "7">>,
      <<"-", "5", "\n">>,
      <<"1", ",", ",", "2", ",", " ">>,
      <<"\n">>,
      <<"#", "1", "0">>,
      <<",">>,
      <<"1", ",", "x">>,
      <<"#">> }

\* answers to the frequency queries, as float() sees them
StartAnswers == {Num(2000), Txt}
StopAnswers == {Num(3000), Txt}
CenterAnswers == {Num(2400), Txt}
SpanAnswers == {Num(1000), Txt}

\* answers to :SWEep:POINts?, as int() sees them
PointsAnswers == {Num(3001), Txt}

----------------------------------------------------------------------------
(* Initial state: the script has not started *)

\* nothing opened, nothing sent
Fresh ==
    /\ handle = "none"
    /\ closeCalls = 0
    /\ scope = "None"
    /\ log = <<>>

\* the spectrum analyzer script is not running
RigIdle ==
    /\ cfg = NoConfig
    /\ start_freq = None
    /\ stop_freq = None
    /\ num_points = None
    /\ trace_data = None
    /\ amplitude_values = None
    /\ frequency_values = None

\* the block decoder harness is not running
BlkIdle ==
    /\ block = None
    /\ decoded = None
    /\ scaled = None

\* the oscilloscope script is not running
TekIdle ==
    /\ i = 0
    /\ all_traces = <<>>
    /\ time_data = None
    /\ preamble_cache = None
    /\ elapsed = 0
    /\ timeout = 0
    /\ state = <<>>
    /\ ret = "none"
    /\ preamble = None
    /\ raw_data = <<>>
    /\ t_data = None
    /\ v_data = None
    /\ saved = None

InitTek ==
    /\ pc = "connect"
    /\ Fresh
    /\ TekIdle
    /\ RigIdle
    /\ BlkIdle

----------------------------------------------------------------------------
(* connect_to_tektronix, lines 14-64 *)

\* lines 20-44: resource manager, discovery; no device or an exception
\* returns None before anything is opened
Discover ==
    /\ pc = "connect"
    /\ \E found \in BOOLEAN :
          pc' = IF found THEN "open" ELSE "main_if"
    /\ UNCHANGED <<handle, closeCalls, scope, log, i, all_traces, time_data,
                   preamble_cache, elapsed, timeout, state, ret, preamble,
                   raw_data, t_data, v_data, saved>>
    /\ UNCHANGED <<rigVars, blkVars>>

\* line 48: rm.open_resource(tek_device); line 62: except -> return None
OpenResource ==
    /\ pc = "open"
    /\ \E ok \in BOOLEAN :
          IF ok THEN handle' = "open" /\ pc' = "header_off"
                ELSE handle' = handle /\ pc' = "main_if"
    /\ UNCHANGED <<closeCalls, scope, log, i, all_traces, time_data,
                   preamble_cache, elapsed, timeout, state, ret, preamble,
                   raw_data, t_data, v_data, saved>>
    /\ UNCHANGED <<rigVars, blkVars>>

\* line 54: scope.write('HEADer OFF'); lines 62-64: the except clause prints
\* and returns None, the handle is left as it is
HeaderOff ==
    /\ pc = "header_off"
    /\ log' = Append(log, Cmd("HEADer OFF"))
    /\ \E ok \in BOOLEAN :
          pc' = IF ok THEN "idn" ELSE "main_if"
    /\ UNCHANGED <<handle, closeCalls, scope, i, all_traces, time_data,
                   preamble_cache, elapsed, timeout, state, ret, preamble,
                   raw_data, t_data, v_data, saved>>
    /\ UNCHANGED <<rigVars, blkVars>>

\* lines 57-60: idn = scope.query('*IDN?'); return scope
Identify ==
    /\ pc = "idn"
    /\ log' = Append(log, Cmd("*IDN?"))
    /\ \E ok \in BOOLEAN :
          scope' = IF ok THEN "handle" ELSE "None"
    /\ pc' = "main_if"
    /\ UNCHANGED <<handle, closeCalls, i, all_traces, time_data,
                   preamble_cache, elapsed, timeout, state, ret, preamble,
                   raw_data, t_data, v_data, saved>>
    /\ UNCHANGED <<rigVars, blkVars>>

----------------------------------------------------------------------------
(* __main__, lines 202-228 *)

\* line 209: if scope:
MainIf ==
    /\ pc = "main_if"
    /\ pc' = IF scope = "handle" THEN "scales" ELSE "done"
    /\ UNCHANGED <<handle, closeCalls, scope, log, i, all_traces, time_data,
                   preamble_cache, elapsed, timeout, state, ret, preamble,
                   raw_data, t_data, v_data, saved>>
    /\ UNCHANGED <<rigVars, blkVars>>

ScaleQueries == <<Cmd("CH1:SCAle?"), Cmd("HORizontal:SCAle?")>>

\* lines 213-214: two queries outside any try block
QueryScales ==
    /\ pc = "scales"
    /\ \E o \in Outcomes(ScaleQueries) :
          /\ log' = log \o Attempted(ScaleQueries, o[1])
          /\ pc' = IF o[2] THEN "crashed" ELSE "setup_trigger"
    /\ UNCHANGED <<handle, closeCalls, scope, i, all_traces, time_data,
                   preamble_cache, elapsed, timeout, state, ret, preamble,
                   raw_data, t_data, v_data, saved>>
    /\ UNCHANGED <<rigVars, blkVars>>

TRIGGER_CHANNEL == 2

TriggerWrites ==
    << Cmd("TRIGger:A:TYPE EDGE"),
       CmdArg("TRIGger:A:EDGE:SOUrce CH", TRIGGER_CHANNEL),
       CmdArg("TRIGger:A:LEVel:CH", TRIGGER_CHANNEL),
       Cmd("TRIGger:A:EDGE:SLOpe RISE"),
       Cmd("TRIGger:A:MODe NORMAL") >>

\* setup_trigger, lines 170-199: five writes, any exception is printed
\* and swallowed; lines 223-225 initialise the batch
setup_trigger ==
    /\ pc = "setup_trigger"
    /\ \E o \in Outcomes(TriggerWrites) :
          log' = log \o Attempted(TriggerWrites, o[1])
    /\ all_traces' = <<>>
    /\ time_data' = None
    /\ preamble_cache' = None
    /\ i' = 0
    /\ pc' = "loop"
    /\ UNCHANGED <<handle, closeCalls, scope, elapsed, timeout, state, ret,
                   preamble, raw_data, t_data, v_data, saved>>
    /\ UNCHANGED <<rigVars, blkVars>>

\* line 230: for i in range(NUM_TRACES); line 232 calls wait_for_trigger
LoopHead ==
    /\ pc = "loop"
    /\ IF i < NUM_TRACES
       THEN pc' = "arm" /\ timeout' = TriggerTimeout
       ELSE pc' = "save" /\ timeout' = timeout
    /\ UNCHANGED <<handle, closeCalls, scope, log, i, all_traces, time_data,
                   preamble_cache, elapsed, state, ret, preamble,
                   raw_data, t_data, v_data, saved>>
    /\ UNCHANGED <<rigVars, blkVars>>

----------------------------------------------------------------------------
(* wait_for_trigger, lines 67-93 *)

ArmWrites == <<Cmd("ACQuire:STATE RUN"), Cmd("ACQuire:STOPAfter SEQUENCE")>>

\* lines 81-85: arm the scope, then start_time = time.time(); no try block
Arm ==
    /\ pc = "arm"
    /\ \E o \in Outcomes(ArmWrites) :
          /\ log' = log \o Attempted(ArmWrites, o[1])
          /\ pc' = IF o[2] THEN "crashed" ELSE "wait_check"
    /\ elapsed' = 0
    /\ UNCHANGED <<handle, closeCalls, scope, i, all_traces, time_data,
                   preamble_cache, timeout, state, ret, preamble,
                   raw_data, t_data, v_data, saved>>
    /\ UNCHANGED <<rigVars, blkVars>>

\* a do-while loop: the first poll is made whatever the timeout is
InWindowOrFirst(e, t) == e < t \/ e = 0

\* the loop condition with <= in place of <: one more poll at the boundary
InWindowInclusive(e, t) == e <= t

\* line 86: time.time() - start_time < timeout
InWindow(e, t) == e < t

\* line 86: the loop condition; line 93: return False
WaitCheck ==
    /\ pc = "wait_check"
    /\ IF InWindow(elapsed, timeout)
       THEN pc' = "poll" /\ ret' = ret
       ELSE pc' = "wait_ret" /\ ret' = "False"
    /\ UNCHANGED <<handle, closeCalls, scope, log, i, all_traces, time_data,
                   preamble_cache, elapsed, timeout, state, preamble,
                   raw_data, t_data, v_data, saved>>
    /\ UNCHANGED <<rigVars, blkVars>>

\* line 89: state == '0'
Stopped(st) == st = <<"0">>

\* the stripped answer of a query as the log keeps it
AnswerText(st) ==
    CASE st = <<"0">> -> "0"
      [] st = <<"1">> -> "1"
      [] OTHER -> "?"

\* lines 88-91: one poll; the query may raise (no try block), return True
\* on '0', otherwise sleep and go round the loop with the clock advanced
Poll ==
    /\ pc = "poll"
    /\ \/ /\ pc' = "crashed"
          /\ log' = Append(log, Cmd("ACQuire:STATE?"))
          /\ UNCHANGED <<state, ret, elapsed>>
       \/ \E r \in StateResponses :
             /\ state' = Strip(r)
             /\ log' = Append(log, CmdText("ACQuire:STATE?", AnswerText(state')))
             /\ IF Stopped(state')
                THEN /\ ret' = "True"
                     /\ pc' = "wait_ret"
                     /\ elapsed' = elapsed
                ELSE /\ ret' = ret
                     /\ pc' = "wait_check"
                     /\ \E d \in 1..MaxTick : elapsed' = elapsed + d
    /\ UNCHANGED <<handle, closeCalls, scope, i, all_traces, time_data,
                   preamble_cache, timeout, preamble,
                   raw_data, t_data, v_data, saved>>
    /\ UNCHANGED <<rigVars, blkVars>>

\* continue in place of break: the failed capture is tried again
Retry == "loop"

\* the break is missing: a timed-out capture falls through to the fetch
FallThrough == "gw_config"

\* lines 249 and 252: break leaves the capture loop for line 254
Break == "save"

\* line 232: if wait_for_trigger(...); lines 250-252: timeout, break
AfterWait ==
    /\ pc = "wait_ret"
    /\ pc' = IF ret = "True" THEN "gw_config" ELSE Break
    /\ ret' = "none"
    /\ elapsed' = 0
    /\ state' = <<>>
    /\ UNCHANGED <<handle, closeCalls, scope, log, i, all_traces, time_data,
                   preamble_cache, timeout, preamble,
                   raw_data, t_data, v_data, saved>>
    /\ UNCHANGED <<rigVars, blkVars>>

----------------------------------------------------------------------------
(* get_waveform, lines 96-167 *)

\* lines 115-133 with channel=1, num_points=NUM_POINTS
ConfigureCmds ==
    << CmdArg("DATa:SOUrce CH", 1),
       CmdArg("DATa:STARt", 1),
       CmdArg("DATa:STOP", NUM_POINTS),
       Cmd("DATa:ENCdg RPBinary"),
       CmdArg("DATa:WIDth", 2),
       Cmd("WFMOutpre?") >>

\* the cache is ignored: every call configures and queries the preamble
FirstCallAlways(cache) == TRUE

\* line 113: preamble_cache is None
FirstCall(cache) == ~cache.some

\* lines 165-167: except Exception -> return None, None, None
ReturnNone ==
    /\ t_data' = None
    /\ v_data' = None
    /\ preamble' = None
    /\ raw_data' = <<>>
    /\ pc' = "gw_ret"

\* lines 113-135: configure and query the preamble on the first call only,
\* otherwise take the cached preamble
Configure ==
    /\ pc = "gw_config"
    /\ IF FirstCall(preamble_cache)
       THEN \E o \in Outcomes(ConfigureCmds) :
              /\ log' = log \o Attempted(ConfigureCmds, o[1])
              /\ IF o[2]
                 THEN ReturnNone
                 ELSE /\ \E r \in PreambleResponses : preamble' = Some(r)
                      /\ pc' = "gw_extract"
                      /\ UNCHANGED <<t_data, v_data, raw_data>>
       ELSE /\ preamble' = preamble_cache
            /\ pc' = "gw_extract"
            /\ UNCHANGED <<log, t_data, v_data, raw_data>>
    /\ UNCHANGED <<handle, closeCalls, scope, i, all_traces, time_data,
                   preamble_cache, elapsed, timeout, state, ret, saved>>
    /\ UNCHANGED <<rigVars, blkVars>>

\* lines 139-144: int()/float() of the six consumed fields
Extract ==
    /\ pc = "gw_extract"
    /\ IF PreambleParses(preamble.v)
       THEN pc' = "gw_curve" /\ UNCHANGED <<t_data, v_data, preamble, raw_data>>
       ELSE ReturnNone
    /\ UNCHANGED <<handle, closeCalls, scope, log, i, all_traces, time_data,
                   preamble_cache, elapsed, timeout, state, ret, saved>>
    /\ UNCHANGED <<rigVars, blkVars>>

\* lines 147-148: scope.write('CURVe?'); raw_data = scope.read_raw()
Fetch ==
    /\ pc = "gw_curve"
    /\ log' = Append(log, Cmd("CURVe?"))
    /\ \/ ReturnNone
       \/ /\ \E raw \in CurveResponses : raw_data' = raw
          /\ pc' = "gw_decode"
          /\ UNCHANGED <<t_data, v_data, preamble>>
    /\ UNCHANGED <<handle, closeCalls, scope, i, all_traces, time_data,
                   preamble_cache, elapsed, timeout, state, ret, saved>>
    /\ UNCHANGED <<rigVars, blkVars>>

\* lines 151-163: decode, scale, build the time axis, return
DecodeAndScale ==
    /\ pc = "gw_decode"
    /\ LET adc_wave == DecodeCurve(raw_data)
       IN  IF adc_wave.some
           THEN /\ v_data' = Some(ScaleVoltage(adc_wave.v, preamble.v))
                /\ t_data' = Some(TimeAxis(preamble.v))
                /\ raw_data' = <<>>
                /\ pc' = "gw_ret"
                /\ UNCHANGED preamble
           ELSE ReturnNone
    /\ UNCHANGED <<handle, closeCalls, scope, log, i, all_traces, time_data,
                   preamble_cache, elapsed, timeout, state, ret, saved>>
    /\ UNCHANGED <<rigVars, blkVars>>

----------------------------------------------------------------------------
(* __main__, lines 234-285 *)

\* lines 236-249: store the capture, or break on a failed one
Store ==
    /\ pc = "gw_ret"
    /\ IF t_data.some /\ v_data.some
       THEN /\ IF ~time_data.some
               THEN time_data' = t_data /\ preamble_cache' = preamble
               ELSE UNCHANGED <<time_data, preamble_cache>>
            /\ all_traces' = Append(all_traces, v_data.v)
            /\ i' = i + 1
            /\ pc' = "loop"
       ELSE /\ pc' = Break
            /\ UNCHANGED <<time_data, preamble_cache, all_traces, i>>
    /\ t_data' = None
    /\ v_data' = None
    /\ preamble' = None
    /\ UNCHANGED <<handle, closeCalls, scope, log, elapsed, timeout, state,
                   ret, raw_data, saved>>
    /\ UNCHANGED <<rigVars, blkVars>>

\* lines 260-267: np.array(all_traces), np.savez(...); both may raise
Save ==
    /\ pc = "save"
    /\ IF Len(all_traces) > 0 /\ time_data.some
       THEN \/ /\ saved' = Some([time |-> time_data.v, traces |-> all_traces])
               /\ pc' = "plot"
            \/ /\ pc' = "crashed"
               /\ UNCHANGED saved
       ELSE /\ pc' = "close"
            /\ UNCHANGED saved
    /\ UNCHANGED <<handle, closeCalls, scope, log, i, all_traces, time_data,
                   preamble_cache, elapsed, timeout, state, ret, preamble,
                   raw_data, t_data, v_data>>
    /\ UNCHANGED <<rigVars, blkVars>>

\* line 273: plt.plot(x, y) raises ValueError unless len(x) = len(y)
PlotAccepts(x, y) == Len(x) = Len(y)

\* lines 271-279: plot every trace against the stored time axis
Plot ==
    /\ pc = "plot"
    /\ \/ /\ \A k \in 1..Len(all_traces) :
                PlotAccepts(time_data.v, all_traces[k])
          /\ pc' = "close"
       \/ pc' = "crashed"
    /\ UNCHANGED <<handle, closeCalls, scope, log, i, all_traces, time_data,
                   preamble_cache, elapsed, timeout, state, ret, preamble,
                   raw_data, t_data, v_data, saved>>
    /\ UNCHANGED <<rigVars, blkVars>>

\* line 284: scope.close()
Close ==
    /\ pc = "close"
    /\ handle' = "closed"
    /\ closeCalls' = closeCalls + 1
    /\ pc' = "done"
    /\ UNCHANGED <<scope, log, i, all_traces, time_data,
                   preamble_cache, elapsed, timeout, state, ret, preamble,
                   raw_data, t_data, v_data, saved>>
    /\ UNCHANGED <<rigVars, blkVars>>

NextTek ==
    \/ Discover \/ OpenResource \/ HeaderOff \/ Identify
    \/ MainIf \/ QueryScales \/ setup_trigger \/ LoopHead
    \/ Arm \/ WaitCheck \/ Poll \/ AfterWait
    \/ Configure \/ Extract \/ Fetch \/ DecodeAndScale
    \/ Store \/ Save \/ Plot \/ Close

\* the oscilloscope script
SpecTek == InitTek /\ [][NextTek]_vars

----------------------------------------------------------------------------
(* wait_for_trigger on its own, lines 67-93, called on an open connection  *)
(* with any timeout from 0 to MaxTimeout                                   *)

InitWait ==
    /\ pc = "arm"
    /\ handle = "open"
    /\ closeCalls = 0
    /\ scope = "handle"
    /\ log = <<>>
    /\ i = 0
    /\ all_traces = <<>>
    /\ time_data = None
    /\ preamble_cache = None
    /\ elapsed = 0
    /\ timeout \in 0..MaxTimeout
    /\ state = <<>>
    /\ ret = "none"
    /\ preamble = None
    /\ raw_data = <<>>
    /\ t_data = None
    /\ v_data = None
    /\ saved = None
    /\ RigIdle
    /\ BlkIdle

\* the call ends at pc "wait_ret" (returned) or "crashed" (a call raised)
NextWait == Arm \/ WaitCheck \/ Poll

\* the interpreter goes on executing the function while it has a next step
SpecWait == InitWait /\ [][NextWait]_vars /\ WF_vars(NextWait)

----------------------------------------------------------------------------
(* RIGOL_DSA832_connection.py, module body, lines 68-227 *)

InitRigol ==
    /\ pc = "r_open"
    /\ Fresh
    /\ TekIdle
    /\ BlkIdle
    /\ cfg \in Configs
    /\ start_freq = None
    /\ stop_freq = None
    /\ num_points = None
    /\ trace_data = None
    /\ amplitude_values = None
    /\ frequency_values = None

\* a straight-line block of transport calls inside the try block of line 69:
\* the first call that raises transfers control to the except clause
TryBlock(cmds, next) ==
    IF cmds = <<>>
    THEN log' = log /\ pc' = next
    ELSE \E o \in Outcomes(cmds) :
           /\ log' = log \o Attempted(cmds, o[1])
           /\ pc' = IF o[2] THEN "r_except" ELSE next

\* lines 68-72: scope = None; scope = rm.open_resource(SCOPE_ADDRESS)
RigOpen ==
    /\ pc = "r_open"
    /\ \E ok \in BOOLEAN :
          IF ok THEN handle' = "open" /\ scope' = "handle" /\ pc' = "r_idn"
                ELSE handle' = handle /\ scope' = "None" /\ pc' = "r_except"
    /\ UNCHANGED <<closeCalls, log, tekVars, rigVars, blkVars>>

\* line 75: scope.query('*IDN?')
RigIdentify ==
    /\ pc = "r_idn"
    /\ TryBlock(<<Cmd("*IDN?")>>, "r_cfg_freq")
    /\ UNCHANGED <<handle, closeCalls, scope, tekVars, rigVars, blkVars>>

\* the two branches in the other order: center/span is tested first
CenterSpanFirst(c) ==
    IF c.CENTER_FREQ.some /\ c.SPAN.some
    THEN << CmdArg(":FREQuency:CENTer", c.CENTER_FREQ.v),
            CmdArg(":FREQuency:SPAN", c.SPAN.v) >>
    ELSE IF c.START_FREQ.some /\ c.STOP_FREQ.some
    THEN << CmdArg(":FREQuency:STARt", c.START_FREQ.v),
            CmdArg(":FREQuency:STOP", c.STOP_FREQ.v) >>
    ELSE <<>>

\* lines 78-85: the frequency setters the configuration selects
FrequencyWrites(c) ==
    IF c.START_FREQ.some /\ c.STOP_FREQ.some
    THEN << CmdArg(":FREQuency:STARt", c.START_FREQ.v),
            CmdArg(":FREQuency:STOP", c.STOP_FREQ.v) >>
    ELSE IF c.CENTER_FREQ.some /\ c.SPAN.some
    THEN << CmdArg(":FREQuency:CENTer", c.CENTER_FREQ.v),
            CmdArg(":FREQuency:SPAN", c.SPAN.v) >>
    ELSE <<>>

\* lines 77-85
ConfigureFrequency ==
    /\ pc = "r_cfg_freq"
    /\ TryBlock(FrequencyWrites(cfg), "r_cfg_ref")
    /\ UNCHANGED <<handle, closeCalls, scope, tekVars, rigVars, blkVars>>

\* lines 88-90
ReferenceWrites(c) ==
    IF c.REFERENCE_LEVEL.some
    THEN <<CmdArg(":DISPlay:WINdow:TRACe:Y:SCALe:RLEVel", c.REFERENCE_LEVEL.v)>>
    ELSE <<>>

\* lines 87-90
ConfigureReference ==
    /\ pc = "r_cfg_ref"
    /\ TryBlock(ReferenceWrites(cfg), "r_cfg_points")
    /\ UNCHANGED <<handle, closeCalls, scope, tekVars, rigVars, blkVars>>

\* lines 93-98: the setter is written only for a point count in range
PointsWrites(c) ==
    IF c.NUM_POINTS.some /\ PointsInRange(c.NUM_POINTS.v)
    THEN <<CmdArg(":SWEep:POINts", c.NUM_POINTS.v)>>
    ELSE <<>>

\* lines 92-98
ConfigurePoints ==
    /\ pc = "r_cfg_points"
    /\ TryBlock(PointsWrites(cfg), "r_cfg_mode")
    /\ UNCHANGED <<handle, closeCalls, scope, tekVars, rigVars, blkVars>>

\* line 111: time.sleep(MAX_HOLD_WAIT_TIME), kept in the log as an event
Sleep == CmdArg("time.sleep", MAX_HOLD_WAIT_TIME)

\* the hold path without line 113: continuous sweep is left enabled
ModeWritesLeftOn(c) ==
    IF c.TRACE_MODE # "None" /\ c.TRACE_MODE \in valid_modes
    THEN <<CmdText(":TRACe:MODE", c.TRACE_MODE)>>
         \o (IF IsHold(c.TRACE_MODE) THEN <<Cmd(":INIT:CONT ON")>> ELSE <<>>)
    ELSE <<>>

\* lines 101-113: the writes of the trace mode step
ModeWrites(c) ==
    IF c.TRACE_MODE # "None" /\ c.TRACE_MODE \in valid_modes
    THEN <<CmdText(":TRACe:MODE", c.TRACE_MODE)>>
         \o (IF IsHold(c.TRACE_MODE)
             THEN <<Cmd(":INIT:CONT ON"), Cmd(":INIT:CONT OFF")>>
             ELSE <<>>)
    ELSE <<>>

\* the log of a trace mode step whose n-th write was the last one attempted:
\* the accumulation wait happens once ':INIT:CONT ON' has been written
WithSleep(cmds, n) ==
    IF n = 3 THEN <<cmds[1], cmds[2], Sleep, cmds[3]>> ELSE Attempted(cmds, n)

\* lines 100-116: trace mode, and for a hold mode the accumulation
ConfigureTraceMode ==
    /\ pc = "r_cfg_mode"
    /\ LET cmds == ModeWrites(cfg)
       IN  IF cmds = <<>>
           THEN log' = log /\ pc' = "r_format"
           ELSE \E o \in Outcomes(cmds) :
                  /\ log' = log \o WithSleep(cmds, o[1])
                  /\ pc' = IF o[2] THEN "r_except" ELSE "r_format"
    /\ UNCHANGED <<handle, closeCalls, scope, tekVars, rigVars, blkVars>>

\* line 119
SetFormat ==
    /\ pc = "r_format"
    /\ TryBlock(<<Cmd(":FORMat:TRACe:DATA ASCii")>>, "r_sweep")
    /\ UNCHANGED <<handle, closeCalls, scope, tekVars, rigVars, blkVars>>

\* lines 122-126
SweepWrites(c) ==
    IF ~IsHold(c.TRACE_MODE)
    THEN <<Cmd(":INIT:CONT OFF"), Cmd(":INIT"), Cmd("*WAI")>>
    ELSE <<>>

\* lines 121-126
SingleSweep ==
    /\ pc = "r_sweep"
    /\ TryBlock(SweepWrites(cfg), "r_freq")
    /\ UNCHANGED <<handle, closeCalls, scope, tekVars, rigVars, blkVars>>

StartStopQueries == <<Cmd(":FREQuency:STARt?"), Cmd(":FREQuency:STOP?")>>
CenterSpanQueries == <<Cmd(":FREQuency:CENTer?"), Cmd(":FREQuency:SPAN?")>>

\* lines 129-134: start/stop read-back; the first query that raises or whose
\* answer float() rejects hands over to the center/span fallback
ReadStartStop ==
    /\ pc = "r_freq"
    /\ \/ \E a \in StartAnswers, b \in StopAnswers :
            /\ log' = log \o StartStopQueries
            /\ IF a.ok /\ b.ok
               THEN /\ start_freq' = Some(a.v)
                    /\ stop_freq' = Some(b.v)
                    /\ pc' = "r_points"
               ELSE /\ a.ok
                    /\ UNCHANGED <<start_freq, stop_freq>>
                    /\ pc' = "r_freq_fallback"
       \/ /\ log' = log \o Attempted(StartStopQueries, 1)
          /\ UNCHANGED <<start_freq, stop_freq>>
          /\ pc' = "r_freq_fallback"
    /\ UNCHANGED <<handle, closeCalls, scope, tekVars, blkVars, cfg,
                   num_points, trace_data, amplitude_values, frequency_values>>

\* the division by two is forgotten
WholeSpan(span) == span

\* lines 138-139 (span/2 is exact for the even spans of the model)
HalfSpan(span) == span \div 2

\* lines 135-142: center/span fallback; a failure here is re-raised
ReadCenterSpan ==
    /\ pc = "r_freq_fallback"
    /\ \/ \E c \in CenterAnswers, sp \in SpanAnswers :
            /\ log' = log \o CenterSpanQueries
            /\ IF c.ok /\ sp.ok
               THEN /\ start_freq' = Some(c.v - HalfSpan(sp.v))
                    /\ stop_freq' = Some(c.v + HalfSpan(sp.v))
                    /\ pc' = "r_points"
               ELSE /\ c.ok
                    /\ UNCHANGED <<start_freq, stop_freq>>
                    /\ pc' = "r_except"
       \/ /\ log' = log \o Attempted(CenterSpanQueries, 1)
          /\ UNCHANGED <<start_freq, stop_freq>>
          /\ pc' = "r_except"
    /\ UNCHANGED <<handle, closeCalls, scope, tekVars, blkVars, cfg,
                   num_points, trace_data, amplitude_values, frequency_values>>

\* a query that was answered, kept in the log with what int() made of it
Answered(c, a) ==
    [cmd |-> c, arg |-> a.v, text |-> IF a.ok THEN "number" ELSE "unparsable"]

\* the failure of the read-back is not caught
PointsFailureRaises == [pc |-> "r_except", num_points |-> None]

\* lines 148-149: except: num_points = 601, and the script goes on
PointsFailure == [pc |-> "r_fetch", num_points |-> Some(DefaultPoints)]

\* lines 145-149: point-count read-back with the default as fallback
ReadPoints ==
    /\ pc = "r_points"
    /\ \/ \E a \in PointsAnswers :
            /\ log' = Append(log, Answered(":SWEep:POINts?", a))
            /\ IF a.ok
               THEN num_points' = Some(a.v) /\ pc' = "r_fetch"
               ELSE num_points' = PointsFailure.num_points
                    /\ pc' = PointsFailure.pc
       \/ /\ log' = Append(log, Cmd(":SWEep:POINts?"))
          /\ num_points' = PointsFailure.num_points
          /\ pc' = PointsFailure.pc
    /\ UNCHANGED <<handle, closeCalls, scope, tekVars, blkVars, cfg,
                   start_freq, stop_freq, trace_data, amplitude_values,
                   frequency_values>>

\* lines 155-157: trace_data = scope.query(':TRACe:DATA? TRACE1')
FetchTrace ==
    /\ pc = "r_fetch"
    /\ log' = Append(log, CmdArg(":TRACe:DATA? TRACE", TRACE_NUMBER))
    /\ \/ /\ \E r \in TraceResponses : trace_data' = Some(r)
          /\ pc' = "r_decode"
       \/ /\ UNCHANGED trace_data
          /\ pc' = "r_except"
    /\ UNCHANGED <<handle, closeCalls, scope, tekVars, blkVars, cfg,
                   start_freq, stop_freq, num_points, amplitude_values,
                   frequency_values>>

\* lines 159-189: decode the answer and build the frequency axis
DecodeAndAxis ==
    /\ pc = "r_decode"
    /\ LET amp == DecodeTrace(trace_data.v)
       IN  IF amp.some
           THEN /\ amplitude_values' = amp
                /\ frequency_values' =
                      Some(Linspace(start_freq.v, stop_freq.v, Len(amp.v)))
                /\ pc' = "r_plot"
           ELSE /\ UNCHANGED <<amplitude_values, frequency_values>>
                /\ pc' = "r_except"
    /\ UNCHANGED <<handle, closeCalls, scope, log, tekVars, blkVars, cfg,
                   start_freq, stop_freq, num_points, trace_data>>

\* lines 191-215: plotting and saving may raise; frequency_values[0] and
\* amplitude_values.min() of lines 214-215 raise on an empty trace
PlotSpectrum ==
    /\ pc = "r_plot"
    /\ \/ /\ Len(amplitude_values.v) > 0
          /\ pc' = "r_restore"
       \/ pc' = "r_except"
    /\ UNCHANGED <<handle, closeCalls, scope, log, tekVars, rigVars, blkVars>>

\* lines 217-218: restore continuous sweep, the last statement of the try
Restore ==
    /\ pc = "r_restore"
    /\ TryBlock(<<Cmd(":INIT:CONT ON")>>, "r_finally")
    /\ UNCHANGED <<handle, closeCalls, scope, tekVars, rigVars, blkVars>>

\* lines 220-223: except Exception: print the error and the traceback
Except ==
    /\ pc = "r_except"
    /\ pc' = "r_finally"
    /\ UNCHANGED <<handle, closeCalls, scope, log, tekVars, rigVars, blkVars>>

\* the guard is dropped: close() is called whatever scope is
FinallyGuardAlways(sc) == TRUE

\* line 225: if scope is not None
FinallyGuard(sc) == sc # "None"

\* lines 224-227: finally: close the connection if one was opened
Finally ==
    /\ pc = "r_finally"
    /\ IF FinallyGuard(scope)
       THEN /\ handle' = IF handle = "open" THEN "closed" ELSE handle
            /\ closeCalls' = closeCalls + 1
       ELSE UNCHANGED <<handle, closeCalls>>
    /\ pc' = "r_done"
    /\ UNCHANGED <<scope, log, tekVars, rigVars, blkVars>>

NextRigol ==
    \/ RigOpen \/ RigIdentify
    \/ ConfigureFrequency \/ ConfigureReference \/ ConfigurePoints
    \/ ConfigureTraceMode \/ SetFormat \/ SingleSweep
    \/ ReadStartStop \/ ReadCenterSpan \/ ReadPoints
    \/ FetchTrace \/ DecodeAndAxis \/ PlotSpectrum \/ Restore
    \/ Except \/ Finally

\* the spectrum analyzer script
SpecRigol == InitRigol /\ [][NextRigol]_vars

----------------------------------------------------------------------------
(* Block decoder on its own: get_waveform lines 150-155 applied to buffers *)
(* built in the '#<n><length><data>' format                                *)

\* the two bytes of a signed 16-bit sample, most significant first ('>i2')
BytesBE16(x) ==
    LET u == IF x < 0 THEN x + 65536 ELSE x
    IN  <<u \div 256, u % 256>>

RECURSIVE ToBytesBE16(_)
ToBytesBE16(samples) ==
    IF samples = <<>> THEN <<>>
    ELSE BytesBE16(Head(samples)) \o ToBytesBE16(Tail(samples))

RECURSIVE Pow10(_)
Pow10(k) == IF k = 0 THEN 1 ELSE 10 * Pow10(k - 1)

\* n as nd ASCII decimal digits, zero padded
LengthDigits(n, nd) ==
    [k \in 1..nd |-> ZERO_CHAR + ((n \div Pow10(nd - k)) % 10)]

\* '#' + digit count + length digits + samples, big-endian [+ terminator]
BuildBlock(samples, nd, declared, term) ==
    <<HASH, ZERO_CHAR + nd>> \o LengthDigits(declared, nd)
        \o ToBytesBE16(samples) \o (IF term THEN <<NEWLINE>> ELSE <<>>)

SampleValues == {-32768, -1, 0, 1, 150, 32767}

\* sequences over S of length at most n
SeqsUpTo(S, n) == UNION {[1..k -> S] : k \in 0..n}

\* the buffers handed to the decoder: the declared length is the payload
\* length, or two bytes off
BlockInputs ==
    { [samples |-> sm, nd |-> nd, declared |-> 2 * Len(sm) + d, term |-> t,
       raw |-> BuildBlock(sm, nd, 2 * Len(sm) + d, t)] :
        sm \in SeqsUpTo(SampleValues, MaxSamples), nd \in 1..MaxDigits,
        d \in {0, 2}, t \in BOOLEAN }

InitBlock ==
    /\ pc = "b_start"
    /\ Fresh
    /\ TekIdle
    /\ RigIdle
    /\ block \in {Some(b) : b \in BlockInputs}
    /\ decoded = None
    /\ scaled = None

\* lines 150-155 applied to the buffer
BlockDecode ==
    /\ pc = "b_start"
    /\ decoded' = DecodeCurve(block.v.raw)
    /\ pc' = "b_done"
    /\ UNCHANGED <<handle, closeCalls, scope, log, tekVars, rigVars, block,
                   scaled>>

\* the scaling parameter sets: point count, x increment, x zero, y multiplier,
\* y offset, y zero
ScalingSets ==
    [ points : 0..(MaxSamples + 1), xincr : {1, 2}, xzero : {-1, 0},
      ymult : {-1, 2}, yoff : {0, 100}, yzero : {0, 5} ]

\* lines 158-161 applied to the decoded samples under a parameter set
BlockScale ==
    /\ pc = "b_done"
    /\ decoded.some
    /\ \E q \in ScalingSets :
          LET p == MkPreamble(Num(q.points), Num(q.xincr), Num(q.xzero),
                              Num(q.ymult), Num(q.yoff), Num(q.yzero))
          IN  scaled' = Some([ q |-> q,
                               voltage_data |-> ScaleVoltage(decoded.v, p),
                               time_data |-> TimeAxis(p) ])
    /\ pc' = "b_scaled"
    /\ UNCHANGED <<handle, closeCalls, scope, log, tekVars, rigVars, block,
                   decoded>>

NextBlock == BlockDecode \/ BlockScale

\* the block decoder applied to bounded inputs
SpecBlock == InitBlock /\ [][NextBlock]_vars

----------------------------------------------------------------------------
(* Properties of the oscilloscope script *)

\* the script has ended, normally or by an uncaught exception
Terminated == pc \in {"done", "crashed"}

\* the capture loop has been left
AfterLoop == pc \in {"save", "plot", "close", "done", "crashed"}

\* number of entries of the log with command c
Count(c) == Cardinality({k \in DOMAIN log : log[k].cmd = c})

\* number of arm commands among the first k entries of the log
ArmsBefore(k) ==
    Cardinality({j \in 1..k : log[j].cmd = "ACQuire:STATE RUN"})

\* C1: in no terminal state of the oscilloscope script is a handle that
\* open_resource returned still open: it was closed on every exit path.
C1_HandleClosedOnEveryExit == Terminated => handle # "open"

\* C4: get_waveform never returns a trace whose number of decoded samples
\* differs from the sample count NR_PT declared in the preamble.
C4_NoTraceOnCountMismatch ==
    (pc = "gw_ret" /\ v_data.some /\ preamble.some)
        => Len(v_data.v) = Field(preamble.v, 6).v

\* C5: every trace handed to the caller has two axes of equal length: the
\* analyzer's frequency and amplitude arrays, the time and voltage arrays
\* get_waveform returns, and every stored trace against the stored time axis.
C5_AxesAligned ==
    /\ (amplitude_values.some /\ frequency_values.some)
          => Len(frequency_values.v) = Len(amplitude_values.v)
    /\ (pc = "gw_ret" /\ t_data.some /\ v_data.some)
          => Len(t_data.v) = Len(v_data.v)
    /\ time_data.some
          => \A k \in DOMAIN all_traces :
                Len(all_traces[k]) = Len(time_data.v)

\* the entry of the last arm command before entry k of the log, 0 if none
LastArm(k) ==
    LET arms == {j \in 1..(k - 1) : log[j].cmd = "ACQuire:STATE RUN"}
    IN  IF arms = {} THEN 0 ELSE CHOOSE j \in arms : \A m \in arms : m <= j

\* C11: every CURVe? is preceded, within its own capture, by the two arm
\* commands and then by a poll that answered '0'; no capture fetches two
\* curves, so none is fetched after a timeout or on an earlier trigger.
C11_FetchAfterArmAndStop ==
    \A k \in DOMAIN log :
        log[k].cmd = "CURVe?" =>
            LET a == LastArm(k)
            IN  /\ a > 0
                /\ log[a + 1].cmd = "ACQuire:STOPAfter SEQUENCE"
                /\ \E p \in (a + 2)..(k - 1) :
                      /\ log[p].cmd = "ACQuire:STATE?"
                      /\ log[p].text = "0"
                /\ \A j \in (a + 1)..(k - 1) : log[j].cmd # "CURVe?"

\* the second capture fetched its curve after its own arm and stopped poll
C11_Witness ==
    /\ pc = "gw_ret" /\ i = 1 /\ v_data.some
    /\ Count("CURVe?") = 2 /\ Count("ACQuire:STATE RUN") = 2

\* C8: wait_for_trigger returns False only once the elapsed time has reached
\* the timeout and no poll answered '0'; it returns True only when a poll
\* issued while the elapsed time was below the timeout answered '0'.
C8_TimeoutAtBoundary ==
    pc = "wait_ret" =>
        /\ ret \in {"True", "False"}
        /\ ret = "False" => (elapsed >= timeout /\ state # <<"0">>)
        /\ ret = "True" => /\ elapsed < timeout
                           /\ state = <<"0">>
                           /\ log[Len(log)].cmd = "ACQuire:STATE?"

\* a timeout was reported after at least one poll that did not answer '0'
C8_Witness ==
    pc = "wait_ret" /\ ret = "False" /\ state = <<"1">> /\ elapsed >= timeout

\* C9: once a capture has failed the batch is aborted: no further command
\* is handed to the transport and the loop index stays, and no capture is
\* armed more than once.
C9_AbortWithoutRetry ==
    [][ /\ (AfterLoop /\ i < NUM_TRACES) => (log' = log /\ i' = i)
        /\ Count("ACQuire:STATE RUN")' <= i' + 1 ]_vars

\* the second capture failed in get_waveform and the batch was left
C9_Witness ==
    pc = "save" /\ i = 1 /\ Count("CURVe?") = 2 /\ Len(all_traces) = 1

ConfigureNames == {ConfigureCmds[k].cmd : k \in DOMAIN ConfigureCmds}

\* C10: the data-transfer configuration writes and the WFMOutpre? query are
\* issued during the first capture only, later captures use the cached
\* preamble, and the cached preamble never changes once it is stored.
C10_ConfigureOnce ==
    [][ /\ preamble_cache.some => preamble_cache' = preamble_cache
        /\ \A k \in DOMAIN log' :
              log'[k].cmd \in ConfigureNames => ArmsBefore(k)' = 1
        /\ \A c \in ConfigureNames : Count(c)' <= 1
        /\ (pc' \in {"gw_extract", "gw_curve", "gw_decode"} /\ i' > 0)
              => (preamble_cache'.some /\ preamble' = preamble_cache') ]_vars

\* a later capture was scaled and returned without any configuration command
C10_Witness ==
    /\ pc = "gw_ret" /\ i = 2 /\ t_data.some
    /\ preamble = preamble_cache
    /\ Count("WFMOutpre?") = 1 /\ Count("CURVe?") = 3

\* the script has ended and capture i was armed but never stored
CaptureFailed ==
    Terminated /\ i < NUM_TRACES /\ Count("ACQuire:STATE RUN") = i + 1

\* C12: when a capture fails after k >= 1 stored captures, exactly those k
\* traces, in order, with the time axis of the first capture, are handed to
\* np.savez and the connection is closed; when k = 0 nothing is saved.
C12_PartialDataPersisted ==
    CaptureFailed =>
        IF i >= 1
        THEN /\ saved.some
             /\ saved.v.traces = all_traces
             /\ Len(all_traces) = i
             /\ saved.v.time = TimeAxis(preamble_cache.v)
             /\ handle = "closed"
        ELSE ~saved.some

----------------------------------------------------------------------------
(* Properties of the spectrum analyzer script *)

\* a is a prefix of b
IsPrefix(a, b) == Len(a) <= Len(b) /\ SubSeq(b, 1, Len(a)) = a

\* the commands that drive the sweep, and the accumulation wait
IsSweepEntry(e) ==
    e.cmd \in {":INIT:CONT ON", ":INIT:CONT OFF", ":INIT", "*WAI", "time.sleep"}

\* the sweep commands and waits of the log, in order
SweepLog ==
    LET sel == SelectSeq(log, IsSweepEntry)
    IN  [k \in DOMAIN sel |-> sel[k].cmd]

\* the acquisition has passed the sweep steps without an exception
PastSweep ==
    pc \in {"r_freq", "r_freq_fallback", "r_points", "r_fetch", "r_decode",
            "r_plot", "r_restore"}

HoldPath == <<":INIT:CONT ON", "time.sleep", ":INIT:CONT OFF">>
SinglePath == <<":INIT:CONT OFF", ":INIT", "*WAI">>

\* C13: exactly one of the two paths runs. For MAXHold and MINHold the sweep
\* commands are continuous ON, the accumulation wait, continuous OFF, and
\* ':INIT' is never written; for any other, invalid or absent mode they are
\* continuous OFF, one ':INIT', '*WAI', and there is no accumulation wait.
\* Only the restoring ':INIT:CONT ON' may follow.
C13_OnePathRuns ==
    LET path == IF cfg.TRACE_MODE \in {"MAXHold", "MINHold"}
                THEN HoldPath ELSE SinglePath
    IN  /\ IsPrefix(SweepLog, path \o <<":INIT:CONT ON">>)
        /\ PastSweep => SweepLog = path

\* a min-hold acquisition accumulated and reached the fetch without ':INIT'
C13_Witness ==
    /\ pc = "r_fetch" /\ cfg.TRACE_MODE = "MINHold"
    /\ SweepLog = HoldPath

\* the frequency read-back has completed without an exception
PastFrequency ==
    pc \in {"r_points", "r_fetch", "r_decode", "r_plot", "r_restore"}

\* the numeric answers among a set of answers
Values(answers) == {a.v : a \in {b \in answers : b.ok}}

\* C14: when the start and stop queries both succeed their answers are the
\* frequency range; otherwise center and span are queried and the range is
\* center - span/2 .. center + span/2; when those fail too the acquisition
\* ends without any trace-data query and without a trace.
C14_FrequencyReadBack ==
    /\ start_freq.some <=> stop_freq.some
    /\ PastFrequency => start_freq.some
    /\ (start_freq.some /\ Count(":FREQuency:CENTer?") = 0) =>
          /\ start_freq.v \in Values(StartAnswers)
          /\ stop_freq.v \in Values(StopAnswers)
          /\ Count(":FREQuency:STARt?") = 1 /\ Count(":FREQuency:STOP?") = 1
    /\ (start_freq.some /\ Count(":FREQuency:CENTer?") > 0) =>
          /\ Count(":FREQuency:CENTer?") = 1 /\ Count(":FREQuency:SPAN?") = 1
          /\ \E c \in Values(CenterAnswers), sp \in Values(SpanAnswers) :
                /\ 2 * start_freq.v = 2 * c - sp
                /\ 2 * stop_freq.v = 2 * c + sp
    /\ ~start_freq.some =>
          (Count(":TRACe:DATA? TRACE") = 0 /\ ~amplitude_values.some)

\* the range was derived from center and span and the trace is being fetched
C14_Witness ==
    /\ pc = "r_fetch" /\ Count(":FREQuency:CENTer?") = 1
    /\ start_freq = Some(1900) /\ stop_freq = Some(2900)

\* the entries of the log that are point-count queries
PointsQueries == {k \in DOMAIN log : log[k].cmd = ":SWEep:POINts?"}

\* C15: a point-count query that raises or whose answer does not parse never
\* ends the acquisition: the point count is 601 and the trace is fetched next.
C15_PointsDefault ==
    /\ Cardinality(PointsQueries) <= 1
    /\ \A k \in PointsQueries :
          /\ num_points = Some(IF log[k].text = "number"
                               THEN log[k].arg ELSE DefaultPoints)
          /\ k = Len(log) => pc = "r_fetch"
          /\ k < Len(log) => log[k + 1].cmd = ":TRACe:DATA? TRACE"

\* the query raised and the trace was fetched and decoded with 601 points
C15_Witness ==
    /\ pc = "r_plot" /\ num_points = Some(601)
    /\ \E k \in PointsQueries : log[k].text = ""

\* the entries of the log that are point-count setter writes
PointsSetters == {k \in DOMAIN log : log[k].cmd = ":SWEep:POINts"}

\* the point-count configuration step has completed without an exception
PastPoints ==
    pc \in {"r_cfg_mode", "r_format", "r_sweep", "r_freq", "r_freq_fallback",
            "r_points", "r_fetch", "r_decode", "r_plot", "r_restore"}

\* the setter writes of the log are those the requested point count calls for
SettersMatchRequest ==
    LET n == cfg.NUM_POINTS
        inRange == n.some /\ 101 <= n.v /\ n.v <= 3001
    IN  /\ Cardinality(PointsSetters) <= 1
        /\ \A k \in PointsSetters : inRange /\ log[k].arg = n.v
        /\ (PastPoints /\ inRange) => Cardinality(PointsSetters) = 1

\* C16: a requested point count outside 101..3001 passes the configuration
\* step without an error and without a setter write, and the acquisition goes
\* on; a point count inside the range is written exactly once, with its value.
C16_PointsConfigured ==
    [][ /\ SettersMatchRequest'
        /\ ( /\ pc = "r_cfg_points"
             /\ cfg.NUM_POINTS.some
             /\ (cfg.NUM_POINTS.v < 101 \/ cfg.NUM_POINTS.v > 3001) )
           => (pc' = "r_cfg_mode" /\ log' = log) ]_vars

\* a point count of 50 was requested and the acquisition reached the fetch
C16_Witness ==
    /\ pc = "r_fetch" /\ cfg.NUM_POINTS = Some(50) /\ PointsSetters = {}

\* the frequency configuration step has completed without an exception
PastFrequencyConfig == PastPoints \/ pc \in {"r_cfg_ref", "r_cfg_points"}

\* the entries of the log that write command c with argument a
WritesOf(c, a) == {k \in DOMAIN log : log[k].cmd = c /\ log[k].arg = a}

\* C17: when start, stop, center and span are all supplied only the start and
\* stop setters are written; no acquisition writes a setter of both pairs.
C17_StartStopPrecedence ==
    /\ Count(":FREQuency:STARt") + Count(":FREQuency:STOP") = 0
       \/ Count(":FREQuency:CENTer") + Count(":FREQuency:SPAN") = 0
    /\ ( cfg.START_FREQ.some /\ cfg.STOP_FREQ.some
         /\ cfg.CENTER_FREQ.some /\ cfg.SPAN.some ) =>
          /\ Count(":FREQuency:CENTer") = 0
          /\ Count(":FREQuency:SPAN") = 0
          /\ Count(":FREQuency:STARt") <= 1
          /\ Count(":FREQuency:STOP") <= 1
          /\ PastFrequencyConfig =>
                \E a \in WritesOf(":FREQuency:STARt", cfg.START_FREQ.v),
                   b \in WritesOf(":FREQuency:STOP", cfg.STOP_FREQ.v) : a < b

\* all four values were supplied and the configuration step has written
C17_Witness ==
    /\ cfg.START_FREQ.some /\ cfg.STOP_FREQ.some
    /\ cfg.CENTER_FREQ.some /\ cfg.SPAN.some
    /\ pc = "r_cfg_ref"
    /\ Count(":FREQuency:STARt") = 1 /\ Count(":FREQuency:STOP") = 1

\* the answer to the trace query decodes to exactly one sample
OneSampleAnswer ==
    /\ trace_data.some
    /\ DecodeTrace(trace_data.v).some
    /\ Len(DecodeTrace(trace_data.v).v) = 1

\* C18: an acquisition whose decoded trace has exactly one sample ends in an
\* error: no frequency axis and no trace are produced and the plot and the
\* restore step are never reached.
C18_OneSampleIsFatal ==
    OneSampleAnswer =>
        /\ ~frequency_values.some
        /\ ~amplitude_values.some
        /\ pc \in {"r_decode", "r_except", "r_finally", "r_done"}

\* the answer to the trace query is empty once trimmed and, where it starts
\* with a '#<n><length>' header, once that header is skipped
EmptyAnswer ==
    /\ trace_data.some
    /\ SkipHeader(Strip(trace_data.v)).some
    /\ Strip(SkipHeader(Strip(trace_data.v)).v) = <<>>

\* C19: an empty trace answer makes the decoding raise: no amplitudes and no
\* frequency axis are produced, the plot is never reached, and the acquisition
\* ends with the connection closed, once.
C19_EmptyPayloadRaises ==
    EmptyAnswer =>
        /\ ~amplitude_values.some
        /\ ~frequency_values.some
        /\ pc \in {"r_decode", "r_except", "r_finally", "r_done"}
        /\ pc = "r_done" => (handle = "closed" /\ closeCalls = 1)

\* a header with nothing behind it was received and the script has ended
C19_Witness ==
    /\ pc = "r_done" /\ EmptyAnswer /\ handle = "closed"
    /\ trace_data.v = <<"#", "1", "0">>

\* C20: every scaled value is (raw - offset) * multiplier + zero reference of
\* the raw sample at its position (raw 150 under multiplier 2, offset 100,
\* zero 5 gives 105), and the time axis is i * increment + zero for
\* i = 0 .. count - 1.
C20_ScalingFormulas ==
    scaled.some =>
        LET q == scaled.v.q
            raw == decoded.v
            physical == scaled.v.voltage_data
            t == scaled.v.time_data
        IN  /\ Len(physical) = Len(raw)
            /\ \A k \in 1..Len(raw) :
                  physical[k] = (raw[k] - q.yoff) * q.ymult + q.yzero
            /\ Len(t) = q.points
            /\ \A k \in 1..q.points : t[k] = (k - 1) * q.xincr + q.xzero
            /\ (raw = <<150>> /\ q.ymult = 2 /\ q.yoff = 100 /\ q.yzero = 5)
                  => physical = <<105>>

\* raw 150 was scaled under multiplier 2, offset 100, zero 5, with a time
\* axis of three points
C20_Witness ==
    /\ pc = "b_scaled" /\ scaled.some
    /\ decoded.v = <<150>>
    /\ scaled.v.q.ymult = 2 /\ scaled.v.q.yoff = 100 /\ scaled.v.q.yzero = 5
    /\ scaled.v.q.points = 3 /\ scaled.v.q.xincr = 2 /\ scaled.v.q.xzero = -1
    /\ scaled.v.time_data = <<-1, 1, 3>>

\* wait_for_trigger has returned
Returned == pc = "wait_ret" /\ ret \in {"True", "False"}

\* C21: while no transport call raises, wait_for_trigger eventually returns
\* True or False whatever the timeout; it makes at most one poll per tick of
\* the timeout window; with a timeout of 0 it writes the two arm commands,
\* makes no poll and returns False.
C21_WaitTerminates ==
    /\ [](Count("ACQuire:STATE?") <= timeout)
    /\ [](pc = "wait_ret" => ret \in {"True", "False"})
    /\ []((timeout = 0 /\ pc = "wait_ret") => (ret = "False" /\ log = ArmWrites))
    /\ ([](pc # "crashed") => <>Returned)

\* called with a timeout of 0, the function armed the scope and returned
\* False without a poll
C21_Witness ==
    /\ timeout = 0 /\ pc = "wait_ret" /\ ret = "False"
    /\ log = ArmWrites /\ Count("ACQuire:STATE?") = 0

\* the entries before entry k of the log that carry command c
Before(k, c) == {j \in 1..(k - 1) : log[j].cmd = c}

\* the continuous-sweep commands written before entry k of the log
ContinuousBefore(k) == Before(k, ":INIT:CONT ON") \cup Before(k, ":INIT:CONT OFF")

\* the largest element of a non-empty set of positions
Last(S) == CHOOSE j \in S : \A m \in S : m <= j

\* C22: when the trace query is issued the last continuous-sweep command
\* written is ':INIT:CONT OFF', in a hold mode after ':INIT:CONT ON' and the
\* accumulation wait; and the frequency read-back and then the point-count
\* read-back have completed before it.
C22_SweepStoppedAtFetch ==
    \A k \in DOMAIN log :
        log[k].cmd = ":TRACe:DATA? TRACE" =>
            /\ ContinuousBefore(k) # {}
            /\ log[Last(ContinuousBefore(k))].cmd = ":INIT:CONT OFF"
            /\ cfg.TRACE_MODE \in {"MAXHold", "MINHold"} =>
                  \E a \in Before(k, ":INIT:CONT ON"),
                     b \in Before(k, "time.sleep") :
                        a < b /\ b < Last(ContinuousBefore(k))
            /\ start_freq.some /\ stop_freq.some /\ num_points.some
            /\ log[k - 1].cmd = ":SWEep:POINts?"
            /\ \/ /\ Before(k - 1, ":FREQuency:STARt?") # {}
                  /\ Before(k - 1, ":FREQuency:STOP?") # {}
                  /\ Before(k - 1, ":FREQuency:CENTer?") = {}
               \/ /\ Before(k - 1, ":FREQuency:CENTer?") # {}
                  /\ Before(k - 1, ":FREQuency:SPAN?") # {}

\* in max hold mode the trace query has been issued and answered
C22_Witness ==
    /\ pc = "r_decode" /\ cfg.TRACE_MODE = "MAXHold"
    /\ log[Len(log)].cmd = ":TRACe:DATA? TRACE"
    /\ Before(Len(log), "time.sleep") # {}

\* C2: once open_resource has returned a handle, close is called on it
\* exactly once before the script ends, whatever raised in between; when
\* open_resource failed, close is never called.
C2_ClosedExactlyOnce ==
    /\ closeCalls <= 1
    /\ closeCalls = 1 => handle = "closed"
    /\ pc = "r_done" =>
          \/ handle = "none" /\ closeCalls = 0
          \/ handle = "closed" /\ closeCalls = 1

\* the script ended after decoding raised, with the handle closed once
C2_Witness ==
    /\ pc = "r_done" /\ handle = "closed" /\ closeCalls = 1
    /\ trace_data.some /\ ~amplitude_values.some

\* C3: whenever the connection has been closed, ':INIT:CONT ON' was written
\* before, with no ':INIT:CONT OFF' after it: continuous sweep is re-enabled
\* whatever the outcome of the acquisition.
C3_RestoreBeforeClose ==
    handle = "closed" =>
        \E k \in DOMAIN log :
            /\ log[k].cmd = ":INIT:CONT ON"
            /\ \A j \in (k + 1)..Len(log) : log[j].cmd # ":INIT:CONT OFF"

----------------------------------------------------------------------------
(* Properties of the block decoder *)

\* C6: a block whose header declares a payload length different from the
\* number of bytes between the header and the terminator is not decoded
\* into samples: decoding fails.
C6_LengthMismatchRejected ==
    (pc = "b_done" /\ block.v.term
        /\ block.v.declared # 2 * Len(block.v.samples))
      => ~decoded.some

\* C7: a block built from N samples, with or without a terminator byte,
\* decodes to exactly those N samples in order.
C7_RoundTrip ==
    (pc = "b_done" /\ block.v.declared = 2 * Len(block.v.samples))
      => (decoded.some /\ decoded.v = block.v.samples)

====
